---- MODULE Spec2Model ----
(***************************************************************************)
(* A model of the kas-santra storage engine: the write-ahead log, the      *)
(* MemTable, the SSTables with their sparse index, and the Database that   *)
(* orchestrates set / delete / get / flush / compaction / WAL replay.      *)
(*                                                                         *)
(* Strings are sequences of byte values, so that length accounting, byte   *)
(* order, the WAL's text format and the SSTable's TOMBSTONE sentinel are   *)
(* computed the way the code computes them.                                *)
(***************************************************************************)
EXTENDS Integers, Sequences, FiniteSets, TLC

(***************************************************************************)
(* Bounds of the model.  The thresholds are fields/literals of the code    *)
(* (1024 bytes, 10 tables, 10 records, stride 10); they are scaled down    *)
(* here so that a full MemTable, a compaction and a second read batch are  *)
(* reachable within a few operations.                                      *)
(***************************************************************************)
\* MemTable::new sets flush_threshold_bytes to 1024 (memtable.rs:16)
flush_threshold_bytes == 4
\* Database::new sets sstable_compaction_threshold to 10 (lib.rs:34)
sstable_compaction_threshold == 2
\* SSTable::new sets index_every_n_entries to 10 (sstable.rs:25)
index_every_n_entries == 2
\* the literal 10 passed to batch_read by compact_sstables (lib.rs:210, 275)
BatchSize == 2
\* number of engine calls issued in one behaviour of the single-task engine
MaxCallsSeq == 4
\* number of engine calls issued in one behaviour of the concurrent engine
MaxCalls == 2
\* number of engine calls issued in one behaviour with WAL replay
MaxCallsRecover == 3
\* number of SSTables handed to a compaction
MaxTables == 3

(***************************************************************************)
(* Byte strings                                                            *)
(***************************************************************************)
TAB == 9
NL == 10
INSERT == <<73, 78, 83, 69, 82, 84>>
DELETE == <<68, 69, 76, 69, 84, 69>>
TOMBSTONE == <<84, 79, 77, 66, 83, 84, 79, 78, 69>>

\* the keys and values the clients send: "aa", "b"; "x", "TOMBSTONE"
Keys == {<<97, 97>>, <<98>>}
Values == {<<120>>, TOMBSTONE}
\* the keys of the SSTables handed to a compaction: "a", "aa", "b"
CompactKeys == {<<97>>, <<97, 97>>, <<98>>}

\* byte-lexicographic order of String::cmp
StrLess(a, b) ==
    \E i \in 1..(Len(a) + 1) :
        /\ \A j \in 1..(i - 1) : j <= Len(b) /\ a[j] = b[j]
        /\ \/ i = Len(a) + 1 /\ Len(b) >= i
           \/ i <= Len(a) /\ i <= Len(b) /\ a[i] < b[i]

Min(S) == CHOOSE x \in S : \A y \in S : x <= y

\* the least string of a non-empty set
StrMin(S) == CHOOSE x \in S : \A y \in S \ {x} : StrLess(x, y)

\* the strings of S in ascending byte order: the iteration order of a BTreeMap
RECURSIVE Ascending(_)
Ascending(S) ==
    IF S = {} THEN <<>>
    ELSE LET m == StrMin(S) IN <<m>> \o Ascending(S \ {m})

\* position of the first occurrence of byte c in s at or after i, or 0
RECURSIVE FindByte(_, _, _)
FindByte(s, c, i) ==
    IF i > Len(s) THEN 0
    ELSE IF s[i] = c THEN i
    ELSE FindByte(s, c, i + 1)

\* str::split(sep): the pieces between separators; never empty
RECURSIVE Split(_, _)
Split(s, sep) ==
    LET p == FindByte(s, sep, 1) IN
    IF p = 0 THEN <<s>>
    ELSE <<SubSeq(s, 1, p - 1)>> \o Split(SubSeq(s, p + 1, Len(s)), sep)

\* BufRead::lines: the text cut at every "\n"; a trailing piece without a
\* terminator is a line as well, an empty trailing piece is not
RECURSIVE Lines(_)
Lines(s) ==
    IF s = <<>> THEN <<>>
    ELSE LET p == FindByte(s, NL, 1) IN
         IF p = 0 THEN <<s>>
         ELSE <<SubSeq(s, 1, p - 1)>> \o Lines(SubSeq(s, p + 1, Len(s)))

(***************************************************************************)
(* Operation (operation.rs)                                                *)
(***************************************************************************)
Insert(v) == [tag |-> "Insert", value |-> v]
Delete == [tag |-> "Delete", value |-> <<>>]

Operation_size_bytes(op) == IF op.tag = "Insert" THEN Len(op.value) ELSE 0

\* Option<String> as returned by Database::get
Some(v) == [some |-> TRUE, value |-> v]
None == [some |-> FALSE, value |-> <<>>]

\* Option<Operation> as returned by MemTable::get and SSTable::find_key
Found(op) == [some |-> TRUE, op |-> op]
NotFound == [some |-> FALSE, op |-> Delete]

(***************************************************************************)
(* Maps (BTreeMap)                                                         *)
(***************************************************************************)
EmptyMap == [k \in {} |-> 0]
MapInsert(m, k, v) == [x \in DOMAIN m \cup {k} |-> IF x = k THEN v ELSE m[x]]
MapRemove(m, k) == [x \in DOMAIN m \ {k} |-> m[x]]

(***************************************************************************)
(* Wal (wal.rs): the file is its byte content                              *)
(***************************************************************************)
Wal_new == [file |-> <<>>]

\* writeln!(self.file, "{}", line): the text followed by a newline
Wal_append(wal, line) == [wal EXCEPT !.file = @ \o line \o <<NL>>]

Wal_get_line_iterator(wal) == Lines(wal.file)

Wal_clear(wal) == [wal EXCEPT !.file = <<>>]

(***************************************************************************)
(* MemTable (memtable.rs)                                                  *)
(***************************************************************************)
MemTable_new == [store |-> EmptyMap, size_bytes |-> 0]

MemTable_get(mt, key) ==
    IF key \in DOMAIN mt.store THEN Found(mt.store[key]) ELSE NotFound

MemTable_is_full(mt) == mt.size_bytes >= flush_threshold_bytes

MemTable_is_empty(mt) == DOMAIN mt.store = {}

\* the record MemTable::set logs: format!("INSERT\t{}\t{}\n", key, value)
SetLogEntry(key, value) == INSERT \o <<TAB>> \o key \o <<TAB>> \o value \o <<NL>>

\* the record MemTable::delete logs: format!("DELETE\t{}\n", key)
DeleteLogEntry(key) == DELETE \o <<TAB>> \o key \o <<NL>>

\* bytes accounted to the entry the key already has
ExistingBytes(mt, key) ==
    IF key \in DOMAIN mt.store
    THEN Len(key) + Operation_size_bytes(mt.store[key])
    ELSE 0

\* the memory half of MemTable::set, after the WAL append
MemTable_set(mt, key, value) ==
    [store |-> MapInsert(mt.store, key, Insert(value)),
     size_bytes |-> mt.size_bytes + (Len(key) + Len(value) - ExistingBytes(mt, key))]

\* the memory half of MemTable::delete, after the WAL append
MemTable_delete(mt, key) ==
    [store |-> MapInsert(mt.store, key, Delete),
     size_bytes |-> mt.size_bytes + (Len(key) - ExistingBytes(mt, key))]

\* the memory half of MemTable::clear
MemTable_clear(mt) == [store |-> EmptyMap, size_bytes |-> 0]

\* MemTable::iter over a map that does not keep its keys in ascending order
MemTable_iter_Descending(mt) ==
    LET ks == Ascending(DOMAIN mt.store)
        n == Len(ks)
    IN [i \in 1..n |-> <<ks[n + 1 - i], mt.store[ks[n + 1 - i]]>>]

\* MemTable::iter: the entries in ascending key order
MemTable_iter(mt) ==
    LET ks == Ascending(DOMAIN mt.store) IN
    [i \in 1..Len(ks) |-> <<ks[i], mt.store[ks[i]]>>]

\* a replay that skips the lines it cannot use
ReplayLine_Skipping(store, line) ==
    LET parts == Split(line, TAB) IN
    IF Len(parts) >= 3 /\ parts[1] = INSERT
    THEN [panic |-> FALSE, store |-> MapInsert(store, parts[2], Insert(parts[3]))]
    ELSE IF Len(parts) >= 2 /\ parts[1] = DELETE
    THEN [panic |-> FALSE, store |-> MapRemove(store, parts[2])]
    ELSE [panic |-> FALSE, store |-> store]

\* one line of MemTable::replay_wal; "panic" when an unwrap or the tag fails
ReplayLine(store, line) ==
    LET parts == Split(line, TAB) IN
    IF Len(parts) < 2 THEN [panic |-> TRUE, store |-> store]
    ELSE IF parts[1] = INSERT
         THEN IF Len(parts) < 3 THEN [panic |-> TRUE, store |-> store]
              ELSE [panic |-> FALSE,
                    store |-> MapInsert(store, parts[2], Insert(parts[3]))]
    ELSE IF parts[1] = DELETE
         THEN [panic |-> FALSE, store |-> MapRemove(store, parts[2])]
    ELSE [panic |-> TRUE, store |-> store]

\* MemTable::replay_wal over the lines from position i on
RECURSIVE ReplayFrom(_, _, _)
ReplayFrom(store, lines, i) ==
    IF i > Len(lines) THEN [panic |-> FALSE, store |-> store]
    ELSE LET r == ReplayLine(store, lines[i]) IN
         IF r.panic THEN r ELSE ReplayFrom(r.store, lines, i + 1)

\* MemTable::replay_wal: size_bytes is not touched
MemTable_replay_wal(mt, wal) ==
    LET r == ReplayFrom(mt.store, Wal_get_line_iterator(wal), 1) IN
    [panic |-> r.panic, mt |-> [mt EXCEPT !.store = r.store]]

(***************************************************************************)
(* SSTable (sstable.rs): the file is the sequence of its records, each the *)
(* key bytes and the value bytes behind two 4-byte length prefixes; the    *)
(* index maps a key to the byte offset of its record.                      *)
(***************************************************************************)
SSTable_new == [file |-> <<>>, index |-> EmptyMap]

\* bytes one record occupies: 4 + 4 + key_length + value_length
RecordSize(r) == 4 + 4 + Len(r.key) + Len(r.value)

\* byte offset at which record number i (from 1) starts; the file length for
\* i = Len(file) + 1
RECURSIVE OffsetOf(_, _)
OffsetOf(file, i) ==
    IF i <= 1 THEN 0 ELSE OffsetOf(file, i - 1) + RecordSize(file[i - 1])

\* the number of the record that starts at a byte offset (seek)
RecordAt(file, offset) ==
    CHOOSE i \in 1..(Len(file) + 1) : OffsetOf(file, i) = offset

\* SSTable::write: a Delete is written as the value TOMBSTONE
SSTable_write(sst, key, operation) ==
    LET value == IF operation.tag = "Insert" THEN operation.value ELSE TOMBSTONE
    IN [sst EXCEPT !.file = Append(@, [key |-> key, value |-> value])]

\* how a stored value is read back (find_key, the iterator, get_as_operations)
Decode(value) == IF value = TOMBSTONE THEN Delete ELSE Insert(value)

\* SSTable::batch_write: write the pairs in input order
RECURSIVE SSTable_batch_write(_, _)
SSTable_batch_write(sst, pairs) ==
    IF pairs = <<>> THEN sst
    ELSE SSTable_batch_write(SSTable_write(sst, pairs[1][1], pairs[1][2]), Tail(pairs))

\* the offsets batch_write returns: where each pair's record starts
BatchWriteOffsets(sst, pairs) ==
    LET after == SSTable_batch_write(sst, pairs) IN
    [i \in 1..Len(pairs) |-> OffsetOf(after.file, Len(sst.file) + i)]

SSTable_write_to_index(sst, key, offset) ==
    [sst EXCEPT !.index = MapInsert(@, key, offset)]

\* the sequential read of the whole file (get_as_operations / the iterator)
SSTable_read_all(sst) ==
    [i \in 1..Len(sst.file) |-> <<sst.file[i].key, Decode(sst.file[i].value)>>]

\* SSTable::batch_read(n, offset): up to n records from offset, and the
\* offset behind them
SSTable_batch_read(sst, n, offset) ==
    LET first == RecordAt(sst.file, offset)
        last == Min({Len(sst.file), first + n - 1})
    IN [tuples |-> [i \in 1..(last - first + 1) |->
                      <<sst.file[first + i - 1].key,
                        Decode(sst.file[first + i - 1].value)>>],
        new_offset |-> OffsetOf(sst.file, last + 1)]

\* the binary search of find_key over the index keys (0-based positions as
\* in the code); yields the final value of middle
RECURSIVE BinarySearch(_, _, _, _)
BinarySearch(keys, target, start, end) ==
    LET middle == (start + end) \div 2 IN
    IF end - start > 1
    THEN IF keys[middle + 1] = target THEN middle
         ELSE IF StrLess(target, keys[middle + 1])
              THEN BinarySearch(keys, target, start, middle)
              ELSE BinarySearch(keys, target, middle, end)
    ELSE middle

\* the forward scan of find_key from record number i: the first record
\* whose key is the target, or nothing at the end of the file
RECURSIVE ScanFrom(_, _, _)
ScanFrom(file, target, i) ==
    IF i > Len(file) THEN NotFound
    ELSE IF file[i].key = target THEN Found(Decode(file[i].value))
    ELSE ScanFrom(file, target, i + 1)

\* SSTable::find_key: with an empty index keys.len() - 1 underflows and the
\* call panics (subtraction overflow, or keys[middle] out of bounds)
SSTable_find_key(sst, target) ==
    LET keys == Ascending(DOMAIN sst.index) IN
    IF Len(keys) = 0 THEN [panic |-> TRUE, found |-> NotFound]
    ELSE LET middle == BinarySearch(keys, target, 0, Len(keys) - 1)
             start_offset == sst.index[keys[middle + 1]]
         IN [panic |-> FALSE,
             found |-> ScanFrom(sst.file, target, RecordAt(sst.file, start_offset))]

\* the index loop of flush and compaction: every index_every_n_entries-th
\* pair (from position 0) goes to the index with its offset
RECURSIVE IndexEveryN(_, _, _, _)
IndexEveryN(sst, pairs, offsets, i) ==
    IF i > Len(pairs) THEN sst
    ELSE IndexEveryN(
           IF (i - 1) % index_every_n_entries = 0
           THEN SSTable_write_to_index(sst, pairs[i][1], offsets[i])
           ELSE sst,
           pairs, offsets, i + 1)

\* a new SSTable holding the pairs, as flush and compaction build it
BuildSSTable(pairs) ==
    LET offsets == BatchWriteOffsets(SSTable_new, pairs)
        written == SSTable_batch_write(SSTable_new, pairs)
    IN IndexEveryN(written, pairs, offsets, 1)

(***************************************************************************)
(* The compaction merge of Database::compact_sstables (lib.rs).  Tables    *)
(* are numbered from 1 here (index 0 of the code is table 1); only the     *)
(* order of the numbers matters.                                           *)
(***************************************************************************)
CompactionPriorityQueueItem(key, i, operation) ==
    [key |-> key, sstable_index |-> i, operation |-> operation]

\* an ordering that lets the larger key win
ItemGreater_LargerKeyFirst(a, b) ==
    IF a.key = b.key THEN a.sstable_index > b.sstable_index
    ELSE StrLess(b.key, a.key)

\* an ordering that lets the smaller sstable_index win on equal keys
ItemGreater_OlderFirst(a, b) ==
    IF a.key = b.key THEN a.sstable_index < b.sstable_index
    ELSE StrLess(a.key, b.key)

\* Ord::cmp(a, b) = Greater: the smaller key, and on equal keys the larger
\* sstable_index
ItemGreater(a, b) ==
    IF a.key = b.key THEN a.sstable_index > b.sstable_index
    ELSE StrLess(a.key, b.key)

\* the items pop() may return: those no other item is greater than
QueueTop(queue) == {a \in queue : \A b \in queue : ~ItemGreater(b, a)}

\* the state of the merge when the SSTable-list guard has been taken
MergeInit(tables) ==
    [queue |-> {},
     current_sstables |-> 1..Len(tables),
     final_ops |-> <<>>,
     read_indexes |-> [i \in 1..Len(tables) |-> 0],
     ops_in_queue_per_sstable |-> [i \in 1..Len(tables) |-> 0]]

\* one batch_read of table i and what both call sites do with its result:
\* no records, the table leaves current_sstables; otherwise the records
\* are pushed (an item already queued is not queued twice) and counted
ReadBatch(st, tables, i) ==
    LET r == SSTable_batch_read(tables[i], BatchSize, st.read_indexes[i]) IN
    IF Len(r.tuples) = 0
    THEN [st EXCEPT !.current_sstables = @ \ {i}]
    ELSE [st EXCEPT
            !.ops_in_queue_per_sstable[i] = @ + Len(r.tuples),
            !.queue = @ \cup {CompactionPriorityQueueItem(r.tuples[j][1], i, r.tuples[j][2]) :
                                j \in 1..Len(r.tuples)},
            !.read_indexes[i] = r.new_offset,
            !.current_sstables = @ \cup {i}]

\* the for loop run when the queue is empty: every table still current is
\* read once, in list order
RECURSIVE RefillAll(_, _, _)
RefillAll(st, tables, i) ==
    IF i > Len(tables) THEN st
    ELSE RefillAll(IF i \in st.current_sstables THEN ReadBatch(st, tables, i) ELSE st,
                   tables, i + 1)

\* the merge state at the pop of one loop iteration
BeforePop(st, tables) == IF st.queue = {} THEN RefillAll(st, tables, 1) ELSE st

\* decrement the counter of every drained item's table
RECURSIVE CountDrained(_, _)
CountDrained(counts, items) ==
    IF items = {} THEN counts
    ELSE LET d == CHOOSE x \in items : TRUE IN
         CountDrained([counts EXCEPT ![d.sstable_index] = @ - 1], items \ {d})

\* the rest of the iteration once item has been popped: queued items with
\* the same key are dropped, the item's operation is emitted, and the
\* item's table is read again when it has no item left in the queue
AfterPop(st, tables, item) ==
    LET rest == st.queue \ {item}
        dups == {d \in rest : d.key = item.key}
        i == item.sstable_index
        counts == [CountDrained(st.ops_in_queue_per_sstable, dups) EXCEPT ![i] = @ - 1]
        st2 == [st EXCEPT !.queue = rest \ dups,
                          !.final_ops = Append(@, <<item.key, item.operation>>),
                          !.ops_in_queue_per_sstable = counts]
    IN IF counts[i] = 0 THEN ReadBatch(st2, tables, i) ELSE st2

\* a loop that is left as soon as the queue is found empty
MergeDone_WithoutRefill(st, tables) ==
    \/ st.current_sstables = {}
    \/ st.queue = {} /\ st.final_ops /= <<>>

\* the while loop is left: no table is current, or nothing could be read
MergeDone(st, tables) ==
    \/ st.current_sstables = {}
    \/ BeforePop(st, tables).queue = {}

(***************************************************************************)
(* Database::get (lib.rs): the scan of the SSTables from the last one back *)
(***************************************************************************)
RECURSIVE ScanSSTables(_, _, _)
ScanSSTables(tables, key, i) ==
    IF i < 1 THEN [panic |-> FALSE, value |-> None]
    ELSE LET r == SSTable_find_key(tables[i], key) IN
         IF r.panic THEN [panic |-> TRUE, value |-> None]
         ELSE IF ~r.found.some THEN ScanSSTables(tables, key, i - 1)
         ELSE IF r.found.op.tag = "Insert"
              THEN [panic |-> FALSE, value |-> Some(r.found.op.value)]
              ELSE [panic |-> FALSE, value |-> None]

(***************************************************************************)
(* The engine: one Database shared by the tasks.  Every guard is a         *)
(* tokio::sync::Mutex; a lock variable holds the task that owns the guard  *)
(* (0: free).  A task moves from one await of a guard to the next.         *)
(***************************************************************************)
VARIABLES
    memtable,   \* Database.memtable: [store, size_bytes]
    wal,        \* Database.wal: the active WAL file
    sstables,   \* Database.sstables: the list of SSTables, oldest first
    memLock,    \* owner of the MemTable guard
    walLock,    \* owner of the WAL guard
    sstLock,    \* owner of the SSTable-list guard
    pc,         \* where each task stands
    call,       \* the call each task is in: [op, key, value]
    ret,        \* the outcome of the call a task has finished
    merge,      \* the locals of the compaction that holds the list guard
    entry,      \* the engine state at the start of a flush / compaction / replay
    last,       \* per key, what the last applied mutation makes get return
    allowed,    \* per task and key, the results of the task's last set of
                \* the key and of every mutation of the key applied after it
    tasks,      \* the tasks that issue calls
    tracking,   \* whether allowed is kept
    budget,     \* the number of calls that may still be issued
    fs          \* the data directory: the SSTable files that exist, the next
                \* fresh file name, and the file each task has created for
                \* the SSTable it is writing

vars == <<memtable, wal, sstables, memLock, walLock, sstLock, pc, call, ret,
          merge, entry, last, allowed, tasks, tracking, budget, fs>>

\* what is fixed for a whole behaviour
config == <<tasks, tracking>>

Tasks == {1, 2}

NoCall == [op |-> "none", key |-> <<>>, value |-> <<>>]
NoRet == [status |-> "none", value |-> None]
Ok(v) == [status |-> "ok", value |-> v]
Panic == [status |-> "panic", value |-> None]
Err == [status |-> "err", value |-> None]
NoMerge == MergeInit(<<>>)
NoEntry == [memtable |-> MemTable_new, wal |-> Wal_new, sstables |-> <<>>]
\* the state a flush, a compaction or a replay starts in is kept for
\* comparison when no other task can change the engine meanwhile
SnapshotOf(mt, w, tables) ==
    IF Cardinality(tasks) = 1
    THEN [memtable |-> mt, wal |-> w, sstables |-> tables]
    ELSE NoEntry

Snapshot == SnapshotOf(memtable, wal, sstables)

\* an SSTable as the list holds it: with the path of its file
AtPath(sst, path) == [file |-> sst.file, index |-> sst.index, path |-> path]

\* the paths of the SSTables of a list
Paths(tables) == {tables[i].path : i \in DOMAIN tables}

\* the data directory with no SSTable file in it
EmptyDir == [disk |-> {}, uuid |-> 1, path |-> [t \in Tasks |-> 0]]

\* SSTable::new(path) of a task: OpenOptions .create(true) makes the file
\* under a name (Uuid::new_v4) no file has had
CreateFile(t) ==
    [disk |-> fs.disk \cup {fs.uuid},
     uuid |-> fs.uuid + 1,
     path |-> [fs.path EXCEPT ![t] = fs.uuid]]

\* the task's new SSTable has left its hands (pushed, or dropped on an error)
Handed(d, t) == [d EXCEPT !.path[t] = 0]

\* std::fs::remove_file of every path of a list
RemoveFiles(d, tables) == [d EXCEPT !.disk = @ \ Paths(tables)]

\* an empty MemTable, an empty WAL, no guard taken, no call issued
InitRest ==
    /\ memtable = MemTable_new
    /\ wal = Wal_new
    /\ memLock = 0 /\ walLock = 0 /\ sstLock = 0
    /\ pc = [t \in Tasks |-> "idle"]
    /\ call = [t \in Tasks |-> NoCall]
    /\ ret = [t \in Tasks |-> NoRet]
    /\ merge = NoMerge
    /\ entry = [t \in Tasks |-> NoEntry]
    /\ last = [k \in Keys |-> None]
    /\ allowed = [t \in Tasks |-> [k \in Keys |-> {}]]

\* Database::new: an empty MemTable, an empty WAL, no SSTables
InitEngine == InitRest /\ sstables = <<>> /\ fs = EmptyDir

\* several tasks share the engine
Init == InitEngine /\ tasks = Tasks /\ tracking = FALSE /\ budget = MaxCalls

\* several tasks share the engine and the results each task may read after
\* its own sets are kept
InitHistory == InitEngine /\ tasks = Tasks /\ tracking = TRUE /\ budget = MaxCalls

\* one task issues its calls one after another
InitSeq == InitEngine /\ tasks = {1} /\ tracking = FALSE /\ budget = MaxCallsSeq

Goto(t, label) == pc' = [pc EXCEPT ![t] = label]

\* the call returns (or unwinds with a panic): its outcome is recorded
Finish(t, outcome) ==
    /\ pc' = [pc EXCEPT ![t] = CASE outcome.status = "panic" -> "panicked"
                                 [] outcome.status = "err" -> "failed"
                                 [] OTHER -> "done"]
    /\ ret' = [ret EXCEPT ![t] = outcome]

Release(lock, t) == IF lock = t THEN 0 ELSE lock

(***************************************************************************)
(* Calls                                                                   *)
(***************************************************************************)
Issue(t, c, label, snap) ==
    /\ t \in tasks
    /\ pc[t] = "idle"
    /\ budget > 0
    /\ budget' = budget - 1
    /\ call' = [call EXCEPT ![t] = c]
    /\ entry' = [entry EXCEPT ![t] = snap]
    /\ Goto(t, label)
    /\ UNCHANGED <<memtable, wal, sstables, memLock, walLock, sstLock, ret,
                   merge, last, allowed, config, fs>>

CallSet(t) ==
    \E k \in Keys, v \in Values :
        Issue(t, [op |-> "set", key |-> k, value |-> v], "set_lock_memtable", NoEntry)

CallDelete(t) ==
    \E k \in Keys :
        Issue(t, [op |-> "delete", key |-> k, value |-> <<>>], "delete_lock_memtable", NoEntry)

CallGet(t) ==
    \E k \in Keys :
        Issue(t, [op |-> "get", key |-> k, value |-> <<>>], "get_lock_memtable", NoEntry)

CallFlush(t) ==
    Issue(t, [op |-> "flush", key |-> <<>>, value |-> <<>>], "flush_lock_sstables", Snapshot)

CallCompact(t) ==
    Issue(t, [op |-> "compact", key |-> <<>>, value |-> <<>>], "compact_path", Snapshot)

\* the caller has its result; the task is ready for its next call
Return(t) ==
    /\ pc[t] \in {"done", "panicked", "failed"}
    /\ Goto(t, "idle")
    /\ call' = [call EXCEPT ![t] = NoCall]
    /\ ret' = [ret EXCEPT ![t] = NoRet]
    /\ entry' = [entry EXCEPT ![t] = NoEntry]
    /\ UNCHANGED <<memtable, wal, sstables, memLock, walLock, sstLock, merge,
                   last, allowed, config, budget, fs>>

(***************************************************************************)
(* Database::set                                                           *)
(***************************************************************************)
SetLockMemtable(t) ==
    /\ pc[t] = "set_lock_memtable"
    /\ memLock = 0
    /\ memLock' = t
    /\ Goto(t, "set_lock_wal")
    /\ UNCHANGED <<memtable, wal, sstables, walLock, sstLock, call, ret, merge,
                   entry, last, allowed, config, budget, fs>>

SetLockWal(t) ==
    /\ pc[t] = "set_lock_wal"
    /\ walLock = 0
    /\ walLock' = t
    /\ Goto(t, "set_append")
    /\ UNCHANGED <<memtable, wal, sstables, memLock, sstLock, call, ret, merge,
                   entry, last, allowed, config, budget, fs>>

\* MemTable::set changing the map without having logged the record
SetAppend_Unlogged(t) ==
    /\ pc[t] = "set_append"
    /\ Goto(t, "set_insert")
    /\ UNCHANGED <<memtable, wal, sstables, memLock, walLock, sstLock, call, ret,
                   merge, entry, last, allowed, config, budget, fs>>

\* MemTable::set, first half: the record goes to the WAL
SetAppend(t) ==
    /\ pc[t] = "set_append"
    /\ wal' = Wal_append(wal, SetLogEntry(call[t].key, call[t].value))
    /\ Goto(t, "set_insert")
    /\ UNCHANGED <<memtable, sstables, memLock, walLock, sstLock, call, ret,
                   merge, entry, last, allowed, config, budget, fs>>

\* MemTable::set changing the map before the append that fails
SetAppendFails_AfterInsert(t) ==
    /\ pc[t] = "set_append"
    /\ memtable' = MemTable_set(memtable, call[t].key, call[t].value)
    /\ memLock' = 0
    /\ walLock' = 0
    /\ Finish(t, Panic)
    /\ UNCHANGED <<wal, sstables, sstLock, call, merge, entry, last, allowed,
                   config, budget, fs>>

\* the append fails: expect() panics, the guards are dropped by the unwind
SetAppendFails(t) ==
    /\ pc[t] = "set_append"
    /\ memLock' = 0
    /\ walLock' = 0
    /\ Finish(t, Panic)
    /\ UNCHANGED <<memtable, wal, sstables, sstLock, call, merge, entry, last,
                   allowed, config, budget, fs>>

\* the results get(key) may give each task after this mutation
AllowAfter(t, key, result, own) ==
    IF ~tracking THEN allowed ELSE
    [u \in Tasks |->
        [allowed[u] EXCEPT ![key] =
            IF u = t /\ own THEN {result}
            ELSE IF @ = {} THEN @ ELSE @ \cup {result}]]

\* Database::set returning without the is_full check
SetInsert_NoFlush(t) ==
    /\ pc[t] = "set_insert"
    /\ memtable' = MemTable_set(memtable, call[t].key, call[t].value)
    /\ last' = [last EXCEPT ![call[t].key] = Some(call[t].value)]
    /\ allowed' = AllowAfter(t, call[t].key, Some(call[t].value), TRUE)
    /\ memLock' = 0
    /\ walLock' = 0
    /\ Finish(t, Ok(None))
    /\ UNCHANGED <<wal, sstables, sstLock, call, merge, entry, config, budget, fs>>

\* MemTable::set, second half, and the is_full check of Database::set
SetInsert(t) ==
    /\ pc[t] = "set_insert"
    /\ memtable' = MemTable_set(memtable, call[t].key, call[t].value)
    /\ last' = [last EXCEPT ![call[t].key] = Some(call[t].value)]
    /\ allowed' = AllowAfter(t, call[t].key, Some(call[t].value), TRUE)
    /\ memLock' = 0
    /\ walLock' = 0
    /\ IF MemTable_is_full(memtable')
       THEN /\ Goto(t, "flush_lock_sstables")
            /\ ret' = ret
            /\ entry' = [entry EXCEPT ![t] = SnapshotOf(memtable', wal, sstables)]
       ELSE Finish(t, Ok(None)) /\ entry' = entry
    /\ UNCHANGED <<wal, sstables, sstLock, call, merge, config, budget, fs>>

(***************************************************************************)
(* Database::delete                                                        *)
(***************************************************************************)
DeleteLockMemtable(t) ==
    /\ pc[t] = "delete_lock_memtable"
    /\ memLock = 0
    /\ memLock' = t
    /\ Goto(t, "delete_lock_wal")
    /\ UNCHANGED <<memtable, wal, sstables, walLock, sstLock, call, ret, merge,
                   entry, last, allowed, config, budget, fs>>

DeleteLockWal(t) ==
    /\ pc[t] = "delete_lock_wal"
    /\ walLock = 0
    /\ walLock' = t
    /\ Goto(t, "delete_append")
    /\ UNCHANGED <<memtable, wal, sstables, memLock, sstLock, call, ret, merge,
                   entry, last, allowed, config, budget, fs>>

\* MemTable::delete, first half: the record goes to the WAL
DeleteAppend(t) ==
    /\ pc[t] = "delete_append"
    /\ wal' = Wal_append(wal, DeleteLogEntry(call[t].key))
    /\ Goto(t, "delete_insert")
    /\ UNCHANGED <<memtable, sstables, memLock, walLock, sstLock, call, ret,
                   merge, entry, last, allowed, config, budget, fs>>

DeleteAppendFails(t) ==
    /\ pc[t] = "delete_append"
    /\ memLock' = 0
    /\ walLock' = 0
    /\ Finish(t, Panic)
    /\ UNCHANGED <<memtable, wal, sstables, sstLock, call, merge, entry, last,
                   allowed, config, budget, fs>>

\* MemTable::delete, second half, and the is_full check of
\* Database::delete: only the MemTable guard is dropped before the flush
DeleteInsert(t) ==
    /\ pc[t] = "delete_insert"
    /\ memtable' = MemTable_delete(memtable, call[t].key)
    /\ last' = [last EXCEPT ![call[t].key] = None]
    /\ allowed' = AllowAfter(t, call[t].key, None, FALSE)
    /\ memLock' = 0
    /\ IF MemTable_is_full(memtable')
       THEN /\ Goto(t, "flush_lock_sstables")
            /\ ret' = ret
            /\ walLock' = walLock
            /\ entry' = [entry EXCEPT ![t] = SnapshotOf(memtable', wal, sstables)]
       ELSE Finish(t, Ok(None)) /\ walLock' = 0 /\ entry' = entry
    /\ UNCHANGED <<wal, sstables, sstLock, call, merge, config, budget, fs>>

(***************************************************************************)
(* Database::flush_memtable_to_sstable, called by the client or from set / *)
(* delete                                                                  *)
(***************************************************************************)
\* the list guard is taken and the file of the new SSTable is created
FlushLockSstables(t) ==
    /\ pc[t] = "flush_lock_sstables"
    /\ sstLock = 0
    /\ sstLock' = t
    /\ fs' = CreateFile(t)
    /\ Goto(t, "flush_lock_memtable")
    /\ UNCHANGED <<memtable, wal, sstables, memLock, walLock, call, ret, merge,
                   entry, last, allowed, config, budget>>

\* a flush that lets go of the MemTable guard once the SSTable is pushed
FlushWrite_ReleasingMemtable(t) ==
    /\ pc[t] = "flush_lock_memtable"
    /\ memLock = 0
    /\ memLock' = 0
    /\ sstables' = Append(sstables,
                           AtPath(BuildSSTable(MemTable_iter(memtable)), fs.path[t]))
    /\ fs' = Handed(fs, t)
    /\ sstLock' = 0
    /\ Goto(t, "flush_lock_wal")
    /\ UNCHANGED <<memtable, wal, walLock, call, ret, merge, entry, last,
                   allowed, config, budget>>

\* the MemTable guard is taken, the MemTable is written to the new SSTable
\* in iteration order, the SSTable is pushed and the list guard is dropped
FlushWrite(t) ==
    /\ pc[t] = "flush_lock_memtable"
    /\ memLock = 0
    /\ memLock' = t
    /\ sstables' = Append(sstables,
                           AtPath(BuildSSTable(MemTable_iter(memtable)), fs.path[t]))
    /\ fs' = Handed(fs, t)
    /\ sstLock' = 0
    /\ Goto(t, "flush_lock_wal")
    /\ UNCHANGED <<memtable, wal, walLock, call, ret, merge, entry, last,
                   allowed, config, budget>>

\* batch_write fails and the half-written SSTable joins the list
FlushWriteFails_Pushed(t) ==
    /\ pc[t] = "flush_lock_memtable"
    /\ memLock = 0
    /\ sstables' = Append(sstables, AtPath(SSTable_new, fs.path[t]))
    /\ fs' = Handed(fs, t)
    /\ sstLock' = 0
    /\ walLock' = Release(walLock, t)
    /\ Finish(t, IF call[t].op = "flush" THEN Err ELSE Panic)
    /\ UNCHANGED <<memtable, wal, memLock, call, merge, entry, last,
                   allowed, config, budget>>

\* the MemTable guard is taken and batch_write returns Err: the ? operator
\* returns it, dropping the new SSTable (its file stays) and both guards; a
\* flush called by set or delete panics in their unwrap(), and the unwind
\* drops the WAL guard a delete still holds
FlushWriteFails(t) ==
    /\ pc[t] = "flush_lock_memtable"
    /\ memLock = 0
    /\ fs' = Handed(fs, t)
    /\ sstLock' = 0
    /\ walLock' = Release(walLock, t)
    /\ Finish(t, IF call[t].op = "flush" THEN Err ELSE Panic)
    /\ UNCHANGED <<memtable, wal, sstables, memLock, call, merge, entry, last,
                   allowed, config, budget>>

FlushLockWal(t) ==
    /\ pc[t] = "flush_lock_wal"
    /\ walLock = 0
    /\ walLock' = t
    /\ Goto(t, "flush_clear_memtable")
    /\ UNCHANGED <<memtable, wal, sstables, memLock, sstLock, call, ret, merge,
                   entry, last, allowed, config, budget, fs>>

\* MemTable::clear, first half: the map and size_bytes
FlushClearMemtable(t) ==
    /\ pc[t] = "flush_clear_memtable"
    /\ memtable' = MemTable_clear(memtable)
    /\ Goto(t, "flush_clear_wal")
    /\ UNCHANGED <<wal, sstables, memLock, walLock, sstLock, call, ret, merge,
                   entry, last, allowed, config, budget, fs>>

\* MemTable::clear, second half: the WAL is truncated; flush returns Ok and
\* its guards are dropped
FlushClearWal(t) ==
    /\ pc[t] = "flush_clear_wal"
    /\ wal' = Wal_clear(wal)
    /\ memLock' = 0
    /\ walLock' = 0
    /\ IF call[t].op = "flush"
       THEN Finish(t, Ok(None))
       ELSE Goto(t, "check_threshold") /\ ret' = ret
    /\ UNCHANGED <<memtable, sstables, sstLock, call, merge, entry, last,
                   allowed, config, budget, fs>>

\* set / delete returning after their flush without looking at the list
CheckThreshold_NoCompact(t) ==
    /\ pc[t] = "check_threshold"
    /\ sstLock = 0
    /\ Finish(t, Ok(None))
    /\ walLock' = Release(walLock, t)
    /\ UNCHANGED <<memtable, wal, sstables, memLock, sstLock, call, merge,
                   entry, last, allowed, config, budget, fs>>

\* set / delete after their flush: the list guard is taken to read the
\* length of the list and dropped again
CheckThreshold(t) ==
    /\ pc[t] = "check_threshold"
    /\ sstLock = 0
    /\ IF Len(sstables) >= sstable_compaction_threshold
       THEN /\ Goto(t, "compact_path")
            /\ ret' = ret
            /\ walLock' = walLock
            /\ entry' = [entry EXCEPT ![t] = Snapshot]
       ELSE Finish(t, Ok(None)) /\ walLock' = Release(walLock, t) /\ entry' = entry
    /\ UNCHANGED <<memtable, wal, sstables, memLock, sstLock, call, merge,
                   last, allowed, config, budget, fs>>

(***************************************************************************)
(* Database::compact_sstables                                              *)
(***************************************************************************)
\* the list guard is taken for the length in the new file's name and
\* dropped at the end of the statement; the file of the new SSTable is
\* created
CompactPath(t) ==
    /\ pc[t] = "compact_path"
    /\ sstLock = 0
    /\ fs' = CreateFile(t)
    /\ Goto(t, "compact_lock_sstables")
    /\ UNCHANGED <<memtable, wal, sstables, memLock, walLock, sstLock, call,
                   ret, merge, entry, last, allowed, config, budget>>

CompactLockSstables(t) ==
    /\ pc[t] = "compact_lock_sstables"
    /\ sstLock = 0
    /\ sstLock' = t
    /\ merge' = MergeInit(sstables)
    /\ Goto(t, "compact_loop")
    /\ UNCHANGED <<memtable, wal, sstables, memLock, walLock, call, ret, entry,
                   last, allowed, config, budget, fs>>

\* one iteration of the while loop: refill if the queue is empty, pop,
\* drop the duplicates, emit, read the popped item's table again if needed
CompactIterate(t) ==
    /\ pc[t] = "compact_loop"
    /\ ~MergeDone(merge, sstables)
    /\ \E st \in {BeforePop(merge, sstables)} :
           \E item \in QueueTop(st.queue) : merge' = AfterPop(st, sstables, item)
    /\ UNCHANGED <<memtable, wal, sstables, memLock, walLock, sstLock, pc,
                   call, ret, entry, last, allowed, config, budget, fs>>

\* compact_sstables pushing the new SSTable and leaving the inputs in the
\* list and on disk
CompactFinish_KeepsInputs(t) ==
    /\ pc[t] = "compact_loop"
    /\ MergeDone(merge, sstables)
    /\ sstables' = Append(sstables, AtPath(BuildSSTable(merge.final_ops), fs.path[t]))
    /\ fs' = Handed(fs, t)
    /\ merge' = NoMerge
    /\ sstLock' = 0
    /\ walLock' = Release(walLock, t)
    /\ Finish(t, Ok(None))
    /\ UNCHANGED <<memtable, wal, memLock, call, entry, last, allowed, config,
                   budget>>

\* after the loop: the merged records are written to the new SSTable and
\* indexed, the input files are removed, the list becomes [new],
\* compaction returns Ok
CompactFinish(t) ==
    /\ pc[t] = "compact_loop"
    /\ MergeDone(merge, sstables)
    /\ sstables' = <<AtPath(BuildSSTable(merge.final_ops), fs.path[t])>>
    /\ fs' = Handed(RemoveFiles(fs, sstables), t)
    /\ merge' = NoMerge
    /\ sstLock' = 0
    /\ walLock' = Release(walLock, t)
    /\ Finish(t, Ok(None))
    /\ UNCHANGED <<memtable, wal, memLock, call, entry, last, allowed, config,
                   budget>>

(***************************************************************************)
(* Database::get                                                           *)
(***************************************************************************)
\* the MemTable guard is taken and the MemTable consulted; a hit returns
GetMemtable(t) ==
    /\ pc[t] = "get_lock_memtable"
    /\ memLock = 0
    /\ LET m == MemTable_get(memtable, call[t].key) IN
       IF m.some
       THEN /\ Finish(t, Ok(IF m.op.tag = "Insert" THEN Some(m.op.value) ELSE None))
            /\ memLock' = 0
       ELSE /\ Goto(t, "get_lock_sstables")
            /\ ret' = ret
            /\ memLock' = t
    /\ UNCHANGED <<memtable, wal, sstables, walLock, sstLock, call, merge,
                   entry, last, allowed, config, budget, fs>>

\* the list guard is taken (the MemTable guard is still held) and the
\* SSTables are searched from the newest to the oldest
GetSstables(t) ==
    /\ pc[t] = "get_lock_sstables"
    /\ sstLock = 0
    /\ LET r == ScanSSTables(sstables, call[t].key, Len(sstables)) IN
       Finish(t, IF r.panic THEN Panic ELSE Ok(r.value))
    /\ memLock' = 0
    /\ UNCHANGED <<memtable, wal, sstables, walLock, sstLock, call, merge,
                   entry, last, allowed, config, budget, fs>>

(***************************************************************************)
(* Database::replay_from_wal                                               *)
(***************************************************************************)
\* the records of one or two mutations
Mutations ==
    {SetLogEntry(k, v) : k \in Keys, v \in Values} \cup {DeleteLogEntry(k) : k \in Keys}

\* the files replay_from_wal is pointed at: a WAL another engine wrote
\* while applying one or two mutations, or a file holding the records of
\* one or two mutations in the documented format, one per line
PeerWals ==
    {Wal_append(Wal_new, m) : m \in Mutations}
    \cup {Wal_append(Wal_append(Wal_new, m), n) : m \in Mutations, n \in Mutations}
    \cup {[file |-> m] : m \in Mutations}
    \cup {[file |-> m \o n] : m \in Mutations, n \in Mutations}

CallReplay(t) ==
    \E w \in PeerWals :
        Issue(t, [op |-> "replay", key |-> <<>>, value |-> w], "replay_lock_memtable", Snapshot)

\* a replay that appends the lines it reads to the active WAL
Replay_Relogging(t) ==
    /\ pc[t] = "replay_lock_memtable"
    /\ memLock = 0
    /\ LET r == MemTable_replay_wal(memtable, call[t].value) IN
       /\ memtable' = r.mt
       /\ Finish(t, IF r.panic THEN Panic ELSE Ok(None))
    /\ wal' = [file |-> wal.file \o call[t].value.file]
    /\ UNCHANGED <<sstables, memLock, walLock, sstLock, call, merge, entry,
                   last, allowed, config, budget, fs>>

\* the MemTable guard is taken and the lines of the file at the path are
\* applied; a line that cannot be parsed panics with the earlier ones applied
Replay(t) ==
    /\ pc[t] = "replay_lock_memtable"
    /\ memLock = 0
    /\ LET r == MemTable_replay_wal(memtable, call[t].value) IN
       /\ memtable' = r.mt
       /\ Finish(t, IF r.panic THEN Panic ELSE Ok(None))
    /\ UNCHANGED <<wal, sstables, memLock, walLock, sstLock, call, merge, entry,
                   last, allowed, config, budget, fs>>

(***************************************************************************)
(* Specifications                                                          *)
(***************************************************************************)
Step(t) ==
    \/ CallSet(t) \/ CallDelete(t) \/ CallGet(t) \/ CallFlush(t) \/ CallCompact(t)
    \/ Return(t)
    \/ SetLockMemtable(t) \/ SetLockWal(t) \/ SetAppend(t) \/ SetAppendFails(t)
    \/ SetInsert(t)
    \/ DeleteLockMemtable(t) \/ DeleteLockWal(t) \/ DeleteAppend(t)
    \/ DeleteAppendFails(t) \/ DeleteInsert(t)
    \/ FlushLockSstables(t) \/ FlushWrite(t) \/ FlushWriteFails(t)
    \/ FlushLockWal(t)
    \/ FlushClearMemtable(t) \/ FlushClearWal(t) \/ CheckThreshold(t)
    \/ CompactPath(t) \/ CompactLockSstables(t) \/ CompactIterate(t)
    \/ CompactFinish(t)
    \/ GetMemtable(t) \/ GetSstables(t)

Next == \E t \in Tasks : Step(t)

\* tasks share the engine
Spec == Init /\ [][Next]_vars

\* tasks share the engine, with the history of results kept
SpecHistory == InitHistory /\ [][Next]_vars

\* a single task
SpecSeq == InitSeq /\ [][Next]_vars

\* a single task that may also replay the WAL of another engine
InitRecover == InitEngine /\ tasks = {1} /\ tracking = FALSE /\ budget = MaxCallsRecover

NextRecover == \E t \in Tasks : Step(t) \/ CallReplay(t) \/ Replay(t)

SpecRecover == InitRecover /\ [][NextRecover]_vars

\* the SSTables a compaction may be handed: any ascending run of records
\* over CompactKeys, built and indexed as a flush builds it
InputStores ==
    UNION {[ks -> {Insert(<<120>>), Delete}] : ks \in SUBSET CompactKeys}

InputTables == {BuildSSTable(MemTable_iter([store |-> m, size_bytes |-> 0])) : m \in InputStores}

InputLists == UNION {[1..n -> InputTables] : n \in 0..MaxTables}

\* one task is about to compact a given list of SSTables
InitCompact ==
    /\ InitRest
    /\ tasks = {1}
    /\ tracking = FALSE
    /\ budget = 1
    /\ \E l \in InputLists :
           /\ sstables = [i \in 1..Len(l) |-> AtPath(l[i], i)]
           /\ fs = [EmptyDir EXCEPT !.disk = 1..Len(l), !.uuid = Len(l) + 1]

NextCompact ==
    \/ CallCompact(1) \/ CompactPath(1) \/ CompactLockSstables(1)
    \/ CompactIterate(1) \/ CompactFinish(1)

SpecCompact == InitCompact /\ [][NextCompact]_vars

\* the keys of a single SSTable handed to a compaction: "a", "aa", "ab", "b"
RunKeys == {<<97>>, <<97, 97>>, <<97, 98>>, <<98>>}

\* the single SSTables a compaction may be handed: any ascending run of
\* records over RunKeys, built and indexed as a flush builds it
RunTables ==
    {BuildSSTable(MemTable_iter([store |-> m, size_bytes |-> 0])) :
        m \in UNION {[ks -> {Insert(<<120>>), Delete}] : ks \in SUBSET RunKeys}}

\* one task is about to compact a list of exactly one SSTable
InitCompactOne ==
    /\ InitRest
    /\ tasks = {1}
    /\ tracking = FALSE
    /\ budget = 1
    /\ \E r \in RunTables : sstables = <<AtPath(r, 1)>>
    /\ fs = [EmptyDir EXCEPT !.disk = {1}, !.uuid = 2]

SpecCompactOne == InitCompactOne /\ [][NextCompact]_vars

\* one task is about to compact a list of exactly two SSTables
InitCompactTwo ==
    /\ InitRest
    /\ tasks = {1}
    /\ tracking = FALSE
    /\ budget = 1
    /\ \E r1 \in RunTables, r2 \in RunTables :
           sstables = <<AtPath(r1, 1), AtPath(r2, 2)>>
    /\ fs = [EmptyDir EXCEPT !.disk = {1, 2}, !.uuid = 3]

SpecCompactTwo == InitCompactTwo /\ [][NextCompact]_vars

\* the SSTables of InputTables that hold no tombstone
InsertTables == {r \in InputTables : \A j \in DOMAIN r.file : r.file[j].value /= TOMBSTONE}

\* one task is about to compact a list of two SSTables over CompactKeys,
\* the newer one of inserts only
InitCompactPair ==
    /\ InitRest
    /\ tasks = {1}
    /\ tracking = FALSE
    /\ budget = 1
    /\ \E r1 \in InputTables, r2 \in InsertTables :
           sstables = <<AtPath(r1, 1), AtPath(r2, 2)>>
    /\ fs = [EmptyDir EXCEPT !.disk = {1, 2}, !.uuid = 3]

\* the compaction is scheduled until it returns: the task runs on the tokio
\* runtime and no other task holds a guard it awaits
SpecCompactPairFair == InitCompactPair /\ [][NextCompact]_vars /\ WF_vars(NextCompact)

\* the keys of an SSTable that is searched: "b", "d", "f", "h", "j", "l", "n"
FindKeys == {<<98>>, <<100>>, <<102>>, <<104>>, <<106>>, <<108>>, <<110>>}

\* the keys searched for: "a" .. "o", below, between, at and above FindKeys
FindTargets == {<<c>> : c \in 97..111}

\* the SSTables searched: any ascending run of records over FindKeys, built
\* and indexed as a flush builds it
FindTables ==
    {BuildSSTable(MemTable_iter([store |-> m, size_bytes |-> 0])) :
        m \in UNION {[ks -> {Insert(<<120>>), Delete}] : ks \in SUBSET FindKeys}}

\* one task is about to search a list of exactly one SSTable
InitFind ==
    /\ InitRest
    /\ tasks = {1}
    /\ tracking = FALSE
    /\ budget = 1
    /\ \E r \in FindTables : sstables = <<AtPath(r, 1)>>
    /\ fs = [EmptyDir EXCEPT !.disk = {1}, !.uuid = 2]

\* get(key) for any of the keys searched for
CallGetTarget(t) ==
    \E k \in FindTargets :
        Issue(t, [op |-> "get", key |-> k, value |-> <<>>], "get_lock_memtable", NoEntry)

NextFind == CallGetTarget(1) \/ GetMemtable(1) \/ GetSstables(1) \/ Return(1)

SpecFind == InitFind /\ [][NextFind]_vars

\* number of replay_from_wal calls in one behaviour of the damaged-log engine
MaxReplays == 2

\* a line whose tag is neither INSERT nor DELETE: "U\tk\tx" and "U"
UnknownLines ==
    {<<85, TAB>> \o k \o <<TAB, 120, NL>> : k \in Keys} \cup {<<85, NL>>}

\* a record cut off by a crash: an INSERT without its value, a tag alone
TruncatedLines == {INSERT \o <<TAB>> \o k : k \in Keys} \cup {INSERT, DELETE}

\* the files replay_from_wal is pointed at when the log is damaged: records
\* in the documented format with a line of unknown tag among them, or with
\* a truncated record at the end
DamagedWals ==
    LET Records == Mutations \cup {<<>>} IN
    {[file |-> m \o u \o n] : m \in Records, u \in UnknownLines, n \in Records}
    \cup {[file |-> m \o n \o c] : m \in Records, n \in Records, c \in TruncatedLines}

CallReplayDamaged(t) ==
    \E w \in DamagedWals :
        Issue(t, [op |-> "replay", key |-> <<>>, value |-> w], "replay_lock_memtable", Snapshot)

\* a single task replays logs, damaged ones among them
InitDamaged == InitEngine /\ tasks = {1} /\ tracking = FALSE /\ budget = MaxReplays

NextDamaged == CallReplay(1) \/ CallReplayDamaged(1) \/ Replay(1) \/ Return(1)

SpecDamaged == InitDamaged /\ [][NextDamaged]_vars

\* a single task replays logs into an engine that has been in use: a set
\* that filled the MemTable has been flushed to the one SSTable of the list,
\* and a later set is in the MemTable and in the active WAL
InitUsed ==
    /\ memLock = 0 /\ walLock = 0 /\ sstLock = 0
    /\ pc = [t \in Tasks |-> "idle"]
    /\ call = [t \in Tasks |-> NoCall]
    /\ ret = [t \in Tasks |-> NoRet]
    /\ merge = NoMerge
    /\ entry = [t \in Tasks |-> NoEntry]
    /\ last = [k \in Keys |-> None]
    /\ allowed = [t \in Tasks |-> [k \in Keys |-> {}]]
    /\ tasks = {1}
    /\ tracking = FALSE
    /\ budget = MaxReplays
    /\ \E k1 \in Keys, k2 \in Keys :
           /\ sstables = <<AtPath(BuildSSTable(MemTable_iter(
                              MemTable_set(MemTable_new, k1, TOMBSTONE))), 1)>>
           /\ memtable = MemTable_set(MemTable_new, k2, <<120>>)
           /\ wal = Wal_append(Wal_new, SetLogEntry(k2, <<120>>))
    /\ fs = [EmptyDir EXCEPT !.disk = {1}, !.uuid = 2]

SpecUsed == InitUsed /\ [][NextDamaged]_vars

(***************************************************************************)
(* Properties                                                              *)
(***************************************************************************)
\* Database::get run to its end on a given MemTable and SSTable list
Database_get(mt, tables, key) ==
    LET m == MemTable_get(mt, key) IN
    IF m.some
    THEN Ok(IF m.op.tag = "Insert" THEN Some(m.op.value) ELSE None)
    ELSE LET r == ScanSSTables(tables, key, Len(tables)) IN
         IF r.panic THEN Panic ELSE Ok(r.value)

\* what get makes of an operation
Visible(op) == IF op.tag = "Insert" THEN Some(op.value) ELSE None

\* a get of the task has come to its end, by a return or by a panic
GetEnded(t) == call[t].op = "get" /\ pc[t] \in {"done", "panicked"}

\* C1: after set / delete calls issued one after another (with the flushes
\* and compactions they trigger and explicit ones in between), get(k) returns
\* the value of the last set of k, and not-found when the last mutation of k
\* was a delete or k was never mutated.
C1_GetReturnsLastMutation ==
    \A t \in tasks : GetEnded(t) => ret[t] = Ok(last[call[t].key])

\* C2: a get(k) of a task that has completed a set(k, v) returns v or the
\* result of a mutation of k applied after that set, never what k had before.
C2_NoStaleReadAfterOwnSet ==
    \A t \in tasks :
        (GetEnded(t) /\ allowed[t][call[t].key] /= {}) =>
            /\ ret[t].status = "ok"
            /\ ret[t].value \in allowed[t][call[t].key]

\* the tables of the list that hold a record for the key
Holders(tables, key) ==
    {i \in DOMAIN tables : \E j \in 1..Len(tables[i].file) : tables[i].file[j].key = key}

\* the keys of the records of a list of SSTables
KeysOf(tables) ==
    UNION {{tables[i].file[j].key : j \in 1..Len(tables[i].file)} : i \in DOMAIN tables}

\* the operation the last table holding the key has for it
NewestOp(tables, key) ==
    LET holders == Holders(tables, key)
        i == CHOOSE h \in holders : \A g \in holders : g <= h
        j == CHOOSE r \in 1..Len(tables[i].file) : tables[i].file[r].key = key
    IN Decode(tables[i].file[j].value)

\* the newest location holding the key decides: the MemTable entry, else
\* the entry of the last SSTable that contains the key, else not-found
NewestLocation(mt, tables, key) ==
    IF key \in DOMAIN mt.store THEN Visible(mt.store[key])
    ELSE IF Holders(tables, key) = {} THEN None
    ELSE Visible(NewestOp(tables, key))

\* C3: in every reachable engine state get(k) is decided by the newest
\* location holding k: the MemTable entry if there is one, otherwise the
\* entry of the highest-indexed SSTable that contains k.
C3_GetDecidedByNewestLocation ==
    \A k \in Keys : Database_get(memtable, sstables, k) = Ok(NewestLocation(memtable, sstables, k))

\* the WAL line of a MemTable entry
LineOf(key, op) ==
    IF op.tag = "Insert" THEN INSERT \o <<TAB>> \o key \o <<TAB>> \o op.value
    ELSE DELETE \o <<TAB>> \o key

\* the active WAL holds the record of the entry
Logged(key, op) ==
    LET lines == Wal_get_line_iterator(wal) IN
    \E i \in 1..Len(lines) : lines[i] = LineOf(key, op)

\* C4: the WAL record of a set or delete is appended before the MemTable
\* entry changes: in no state, under any interleaving, does the MemTable
\* hold an entry whose record is not in the active WAL.
C4_WalRecordBeforeMemtableEntry ==
    \A k \in DOMAIN memtable.store : Logged(k, memtable.store[k])

\* a task has set or deleted a key and the entry is in the MemTable while
\* another task is about to read the MemTable
C4_Witness ==
    \E t, u \in tasks :
        /\ pc[t] = "done" /\ call[t].op \in {"set", "delete"}
        /\ call[t].key \in DOMAIN memtable.store
        /\ pc[u] = "get_lock_memtable"

\* C5: when the WAL append of a set or delete fails (nothing is appended),
\* the MemTable map and size_bytes stay as they were and the call ends in
\* the failure (the panic of expect) instead of returning.
C5_FailedAppendLeavesMemtable ==
    [][\A t \in tasks :
          (pc[t] \in {"set_append", "delete_append"} /\ pc'[t] /= pc[t] /\ wal' = wal) =>
              /\ memtable' = memtable
              /\ pc'[t] = "panicked"
              /\ ret'[t] = Panic]_vars

\* a set on a non-empty MemTable has ended in the failure of its append
C5_Witness ==
    \E t \in tasks :
        /\ pc[t] = "panicked" /\ call[t].op = "set"
        /\ DOMAIN memtable.store /= {}

\* C6: the active WAL holds exactly one line per mutation since the last
\* truncation, in the order of the mutations, each line of the form
\* INSERT<TAB>key<TAB>value or DELETE<TAB>key: every set and delete adds
\* its line, and nothing else, to the lines of the file.
C6_OneLinePerMutation ==
    [][\A t \in tasks :
          /\ (pc[t] = "set_append" /\ pc'[t] = "set_insert") =>
                 Wal_get_line_iterator(wal') =
                     Append(Wal_get_line_iterator(wal), LineOf(call[t].key, Insert(call[t].value)))
          /\ (pc[t] = "delete_append" /\ pc'[t] = "delete_insert") =>
                 Wal_get_line_iterator(wal') =
                     Append(Wal_get_line_iterator(wal), LineOf(call[t].key, Delete))]_vars

\* the sum over the entries of len(key) + op.size_bytes()
RECURSIVE SumBytes(_)
SumBytes(store) ==
    IF DOMAIN store = {} THEN 0
    ELSE LET k == CHOOSE x \in DOMAIN store : TRUE IN
         Len(k) + Operation_size_bytes(store[k]) + SumBytes(MapRemove(store, k))

\* C7: in every reachable state (after any set, delete, flush and
\* replay_from_wal) size_bytes is the sum over the MemTable's entries of
\* len(key) + op.size_bytes().
C7_SizeBytesIsSumOfEntries == memtable.size_bytes = SumBytes(memtable.store)

\* a flush of the task (called by the client or by set / delete) has returned
Flushed(t) ==
    \/ pc[t] = "done" /\ call[t].op = "flush"
    \/ pc[t] = "check_threshold"

\* C8: after a successful flush the list is the previous list with one new
\* SSTable appended, that SSTable holds exactly the entries the MemTable had
\* when the flush started, the MemTable is empty with size_bytes 0 and the
\* active WAL has length 0.
C8_FlushPostcondition ==
    \A t \in tasks :
        Flushed(t) =>
            /\ Len(sstables) = Len(entry[t].sstables) + 1
            /\ SubSeq(sstables, 1, Len(sstables) - 1) = entry[t].sstables
            /\ SSTable_read_all(sstables[Len(sstables)]) = MemTable_iter(entry[t].memtable)
            /\ memtable = MemTable_new
            /\ Len(wal.file) = 0

\* the keys of a sequence of (key, operation) pairs ascend strictly
StrictlyAscending(pairs) ==
    \A i \in 1..(Len(pairs) - 1) : StrLess(pairs[i][1], pairs[i + 1][1])

\* C9: every SSTable produced by a flush, read from offset 0, yields its
\* keys in strictly ascending byte order with no key twice, whatever the
\* order of the sets and deletes.
C9_FlushedKeysAscend ==
    \A t \in tasks :
        Flushed(t) => StrictlyAscending(SSTable_read_all(sstables[Len(sstables)]))

\* a flush has written an SSTable of two records
C9_Witness ==
    \E t \in tasks : Flushed(t) /\ Len(sstables[Len(sstables)].file) >= 2

\* a compaction of the list the task was handed has returned
Compacted(t) == pc[t] = "done" /\ call[t].op = "compact"

\* C10: the SSTable written by compact_sstables holds exactly one record for
\* each key of the inputs and no other key, and the record carries the
\* operation of the newest input that contains the key.
C10_OneRecordPerKeyNewestWins ==
    Compacted(1) =>
        LET out == SSTable_read_all(sstables[1]) IN
        /\ Len(sstables) = 1
        /\ {out[i][1] : i \in 1..Len(out)} = KeysOf(entry[1].sstables)
        /\ \A i, j \in 1..Len(out) : i /= j => out[i][1] /= out[j][1]
        /\ \A i \in 1..Len(out) : out[i][2] = NewestOp(entry[1].sstables, out[i][1])

\* C11: for any list of sorted input SSTables, the records of the SSTable
\* written by compact_sstables are in strictly ascending key order.
C11_CompactedKeysAscend ==
    Compacted(1) => StrictlyAscending(SSTable_read_all(sstables[1]))

C13_TombstonesSurviveCompaction ==
    Compacted(1) =>
        \A k \in KeysOf(entry[1].sstables) :
            NewestOp(entry[1].sstables, k) = Delete =>
                /\ \E i \in 1..Len(sstables[1].file) :
                       SSTable_read_all(sstables[1])[i] = <<k, Delete>>
                /\ Database_get(memtable, sstables, k) = Ok(None)

\* the set / delete calls an engine may have recorded: one or two of them
Recorded ==
    {[op |-> "set", key |-> k, value |-> v] : k \in Keys, v \in Values}
    \cup {[op |-> "delete", key |-> k, value |-> <<>>] : k \in Keys}

RecordedSeqs == UNION {[1..n -> Recorded] : n \in 1..2}

\* the WAL and the MemTable of an engine after the calls from position i on
RECURSIVE EngineAfter(_, _, _, _)
EngineAfter(w, mt, calls, i) ==
    IF i > Len(calls) THEN [wal |-> w, memtable |-> mt]
    ELSE LET c == calls[i] IN
         IF c.op = "set"
         THEN EngineAfter(Wal_append(w, SetLogEntry(c.key, c.value)),
                          MemTable_set(mt, c.key, c.value), calls, i + 1)
         ELSE EngineAfter(Wal_append(w, DeleteLogEntry(c.key)),
                          MemTable_delete(mt, c.key), calls, i + 1)

\* a map without the keys it maps to a tombstone
WithoutTombstones(store) ==
    [k \in {x \in DOMAIN store : store[x].tag = "Insert"} |-> store[k]]

\* a replay into a fresh engine has come to its end, by a return or a panic
ReplayEnded(t) ==
    /\ call[t].op = "replay" /\ pc[t] \in {"done", "panicked"}
    /\ entry[t].memtable = MemTable_new

\* C14: replaying the WAL an engine wrote while applying a sequence of set /
\* delete calls into a fresh engine yields the MemTable contents of applying
\* the sequence directly, with the keys last deleted absent; get(k) then
\* returns the last value set.
C14_ReplayRoundTrip ==
    \A t \in tasks : \A calls \in RecordedSeqs :
        LET peer == EngineAfter(Wal_new, MemTable_new, calls, 1) IN
        (ReplayEnded(t) /\ call[t].value = peer.wal) =>
            /\ ret[t] = Ok(None)
            /\ memtable.store = WithoutTombstones(peer.memtable.store)
            /\ \A k \in DOMAIN memtable.store :
                   Database_get(memtable, sstables, k) = Ok(Visible(peer.memtable.store[k]))

\* a set or a delete of the task has returned
MutationReturned(t) == pc[t] = "done" /\ call[t].op \in {"set", "delete"}

\* C15: whenever a set or a delete on a single task returns, the MemTable is
\* not full (size_bytes < flush_threshold_bytes): a mutation that fills it
\* has flushed it before the call returns.
C15_NotFullOnReturn ==
    \A t \in tasks : MutationReturned(t) => ~MemTable_is_full(memtable)

\* a set that filled the MemTable has returned: the MemTable is empty and
\* its entry is in the newest SSTable
C15_Witness ==
    \E t \in tasks :
        /\ pc[t] = "done" /\ call[t].op = "set"
        /\ Len(call[t].key) + Len(call[t].value) >= flush_threshold_bytes
        /\ memtable = MemTable_new
        /\ sstables /= <<>>
        /\ \E i \in 1..Len(sstables[Len(sstables)].file) :
               sstables[Len(sstables)].file[i].key = call[t].key

\* the owner of the guard the task is about to lock (0: free, or the task
\* is not at a lock)
GuardAhead(t) ==
    IF pc[t] \in {"set_lock_memtable", "delete_lock_memtable", "get_lock_memtable",
                  "flush_lock_memtable", "replay_lock_memtable"}
    THEN memLock
    ELSE IF pc[t] \in {"set_lock_wal", "delete_lock_wal", "flush_lock_wal"}
    THEN walLock
    ELSE IF pc[t] \in {"flush_lock_sstables", "check_threshold", "compact_path",
                       "compact_lock_sstables", "get_lock_sstables"}
    THEN sstLock
    ELSE 0

\* the task waits for a guard that is taken
Blocked(t) == GuardAhead(t) /= 0

\* C16: a delete whose tombstone fills the MemTable behaves like such a set:
\* with no other task running the call goes on to its return, flushing on
\* the way; it is never left waiting for a guard.
C16_FullDeleteReturns ==
    \A t \in tasks : call[t].op = "delete" => ~Blocked(t)

\* C17 as stated: whenever a set or a delete returns, the number of SSTables
\* in the list is below the compaction threshold, whatever public
\* operations (explicit flushes included) came before.
C17_BelowThresholdOnReturn ==
    \A t \in tasks : MutationReturned(t) => Len(sstables) < sstable_compaction_threshold

\* C17 amended: a set or delete that has flushed the MemTable returns with
\* the number of SSTables below the compaction threshold: it returns from
\* the check of the list length or from the compaction the check started.
C17_BelowThresholdAfterFlush ==
    [][\A t \in tasks :
          (/\ call[t].op \in {"set", "delete"}
           /\ pc[t] \in {"check_threshold", "compact_loop"}
           /\ pc'[t] = "done") =>
              Len(sstables') < sstable_compaction_threshold]_vars

\* a set has returned from the compaction its flush made due
C17_Witness ==
    \E t \in tasks :
        /\ pc[t] = "done" /\ call[t].op = "set"
        /\ memtable = MemTable_new
        /\ Len(sstables) = 1
        /\ Len(sstables[1].file) >= 2
        /\ fs.uuid > sstable_compaction_threshold + 1

\* the tasks that are inside a call
Unfinished == {t \in tasks : pc[t] \notin {"idle", "done", "panicked", "failed"}}

\* C18: no deadlock: with tasks concurrently calling get, set, delete, flush
\* and compact on one engine and no I/O failure, there is no reachable state
\* in which every unfinished task waits for a guard held by a waiting task
\* (or by itself).
C18_NoDeadlock ==
    Unfinished /= {} => \E t \in Unfinished : ~Blocked(t)


\* A flush is in progress in task u from the moment it has the MemTable guard
\* and reads the entries (lib.rs:81-86) until it has truncated the WAL
\* (lib.rs:108).
Flushing(u) ==
    pc[u] \in {"flush_lock_wal", "flush_clear_memtable", "flush_clear_wal"}

\* A compaction is in progress in task u while it holds the list guard
\* (lib.rs:186) and merges.
Compacting(u) == pc[u] = "compact_loop"

\* Task t takes a step of a set or a delete (lib.rs:45-53, 130-134).
Mutates(t) ==
    /\ pc[t] \in {"set_append", "set_insert", "delete_append", "delete_insert"}
    /\ pc'[t] /= pc[t]

\* C19: while a flush or a compaction of task u is in progress, no step of a
\* set or delete of another task t changes the MemTable or the WAL.
C19_MutationsExcludedDuringFlushAndCompaction ==
    [][\A t \in tasks : \A u \in tasks \ {t} :
          ((Flushing(u) \/ Compacting(u)) /\ Mutates(t)) =>
              /\ memtable' = memtable
              /\ wal' = wal]_vars


\* C20: when writing the new SSTable fails during flush_memtable_to_sstable
\* the caller gets the error, and the MemTable contents, its size_bytes, the
\* WAL contents and the SSTable list are as they were when the flush started.
C20_FailedFlushChangesNothing ==
    \A t \in tasks :
        pc[t] = "failed" =>
            /\ call[t].op = "flush"
            /\ ret[t] = Err
            /\ memtable = entry[t].memtable
            /\ wal = entry[t].wal
            /\ sstables = entry[t].sstables

\* a flush has failed with entries in the MemTable, lines in the WAL and an
\* SSTable in the list
C20_Witness ==
    \E t \in tasks :
        /\ pc[t] = "failed"
        /\ memtable.store /= EmptyMap
        /\ memtable.size_bytes > 0
        /\ Len(wal.file) > 0
        /\ Len(sstables) > 0


\* C21: find_key on an SSTable whose sparse index is empty scans the file
\* from offset 0 and gives the matching operation or None without a panic,
\* and so a get does not fail when the list holds such an SSTable.
C21_EmptyIndexScansFromZero ==
    /\ \A i \in DOMAIN sstables : \A k \in Keys :
           DOMAIN sstables[i].index = {} =>
               /\ ~SSTable_find_key(sstables[i], k).panic
               /\ SSTable_find_key(sstables[i], k).found
                      = ScanFrom(sstables[i].file, k, 1)
    /\ \A t \in tasks :
           (call[t].op = "get" /\ \E i \in DOMAIN sstables :
                                      DOMAIN sstables[i].index = {})
               => pc[t] /= "panicked"


AwaitsMemtable(t) ==
    pc[t] \in {"set_lock_memtable", "delete_lock_memtable", "get_lock_memtable",
               "flush_lock_memtable", "replay_lock_memtable"}

\* the task is at the lock().await of the WAL guard
AwaitsWal(t) == pc[t] \in {"set_lock_wal", "delete_lock_wal", "flush_lock_wal"}

\* C23: guards are acquired in the order MemTable, WAL, SSTable list: no task
\* is at the await of the MemTable guard or of the WAL guard while it holds
\* the SSTable-list guard, and none is at the await of the MemTable guard
\* while it holds the WAL guard.
C23_GuardOrder ==
    \A t \in tasks :
        /\ (AwaitsMemtable(t) \/ AwaitsWal(t)) => sstLock /= t
        /\ AwaitsMemtable(t) => walLock /= t


\* C24: for every SSTable with ascending unique keys and its sparse index,
\* and every target key, find_key gives what a linear scan of the whole file
\* from offset 0 gives: the operation of the record with that key, or None.
C24_FindKeyIsLinearScan ==
    \A t \in tasks :
        GetEnded(t) =>
            \A i \in DOMAIN sstables :
                LET r == SSTable_find_key(sstables[i], call[t].key) IN
                /\ ~r.panic
                /\ r.found = ScanFrom(sstables[i].file, call[t].key, 1)


\* the record numbers (from 1) of the file at positions 0, stride, 2*stride, ...
StridePositions(sst) ==
    {p \in 1..Len(sst.file) : (p - 1) % index_every_n_entries = 0}

\* C25: in every SSTable built by flush or by compaction the sparse index
\* holds exactly the keys of the records at positions 0, stride, 2*stride,
\* ... of the file, and maps each of them to the byte offset at which that
\* record starts.
C25_IndexInvariant ==
    \A i \in DOMAIN sstables :
        LET sst == sstables[i] IN
        /\ DOMAIN sst.index = {sst.file[p].key : p \in StridePositions(sst)}
        /\ \A p \in StridePositions(sst) :
               sst.index[sst.file[p].key] = OffsetOf(sst.file, p)


\* a replay_from_wal of the task has come to its end, by a return or a panic
ReplayFinished(t) == call[t].op = "replay" /\ pc[t] \in {"done", "panicked"}

\* C26: replay_from_wal(path) changes only the MemTable: when the call ends
\* the engine's active WAL (contents and length) and the SSTable list are as
\* they were when it was called.
C26_ReplayFrame ==
    \A t \in tasks :
        ReplayFinished(t) =>
            /\ wal = entry[t].wal
            /\ sstables = entry[t].sstables

\* a replay has returned with a new MemTable content while the active WAL
\* holds a record and the list an SSTable
C26_Witness ==
    \E t \in tasks :
        /\ ReplayFinished(t)
        /\ pc[t] = "done"
        /\ memtable.store /= entry[t].memtable.store
        /\ Len(wal.file) > 0
        /\ Len(sstables) > 0


\* the tag of a WAL line: the text before the first tab
TagOf(line) == Split(line, TAB)[1]

\* the line is a whole record: INSERT with key and value, or DELETE with key
Complete(line) ==
    \/ TagOf(line) = INSERT /\ Len(Split(line, TAB)) >= 3
    \/ TagOf(line) = DELETE /\ Len(Split(line, TAB)) >= 2

\* the number of the first line that is not a whole record (0: none)
FirstAnomaly(lines) ==
    IF \A j \in DOMAIN lines : Complete(lines[j]) THEN 0
    ELSE Min({j \in DOMAIN lines : ~Complete(lines[j])})

\* the store after the whole records lines[1..n] are applied in order
RECURSIVE Applied(_, _, _)
Applied(store, lines, n) ==
    IF n = 0 THEN store
    ELSE LET before == Applied(store, lines, n - 1)
             parts == Split(lines[n], TAB)
         IN IF parts[1] = INSERT
            THEN MapInsert(before, parts[2], Insert(parts[3]))
            ELSE MapRemove(before, parts[2])

\* C27: a replay of a WAL holding a line whose tag is neither INSERT nor
\* DELETE (the lines before it being whole records) ends in the fatal
\* outcome, with the records before that line applied to the MemTable and no
\* record after it applied.
C27_UnknownTagIsFatal ==
    \A t \in tasks :
        ReplayFinished(t) =>
            LET lines == Lines(call[t].value.file)
                j == FirstAnomaly(lines)
            IN (j /= 0 /\ TagOf(lines[j]) \notin {INSERT, DELETE}) =>
                   /\ pc[t] = "panicked"
                   /\ memtable.store = Applied(entry[t].memtable.store, lines, j - 1)

\* a replay has met a line of unknown tag between two records, the first of
\* which changed the MemTable
C27_Witness ==
    \E t \in tasks :
        /\ ReplayFinished(t)
        /\ LET lines == Lines(call[t].value.file) IN
           /\ Len(lines) = 3
           /\ FirstAnomaly(lines) = 2
           /\ TagOf(lines[2]) \notin {INSERT, DELETE}
           /\ Complete(lines[3])
        /\ memtable.store /= entry[t].memtable.store
        /\ entry[t].memtable.store /= EmptyMap


\* C28: a replay of a WAL whose last line is a truncated record (the lines
\* before it being whole records) discards that line: it finishes without a
\* failure and every record before the line is applied to the MemTable.
C28_TruncatedTailIsDiscarded ==
    \A t \in tasks :
        ReplayFinished(t) =>
            LET lines == Lines(call[t].value.file)
                j == FirstAnomaly(lines)
            IN (j /= 0 /\ j = Len(lines) /\ TagOf(lines[j]) \in {INSERT, DELETE}) =>
                   /\ pc[t] = "done"
                   /\ memtable.store = Applied(entry[t].memtable.store, lines, j - 1)


\* a has higher priority than b as the ordering is documented: the smaller
\* key, and on the same key the larger sstable_index
HigherPriority(a, b) ==
    \/ StrLess(a.key, b.key)
    \/ a.key = b.key /\ a.sstable_index > b.sstable_index

\* C29: the compaction queue pops in ascending key order and, among items of
\* the same key, the one with the larger sstable_index first: the record each
\* pop emits belongs to an item that has higher priority than every other
\* item queued at that moment.
C29_QueuePopsHighestPriority ==
    [][\A t \in tasks :
          (pc[t] = "compact_loop"
           /\ Len(merge'.final_ops) = Len(merge.final_ops) + 1) =>
              LET queue == BeforePop(merge, sstables).queue
                  out == merge'.final_ops[Len(merge'.final_ops)]
              IN \E x \in queue :
                     /\ <<x.key, x.operation>> = out
                     /\ \A y \in queue \ {x} : HigherPriority(x, y)]_vars

\* a pop has just chosen between two queued items of the same key with
\* different operations, and a larger key was queued behind them
C29_Witness ==
    \E t \in tasks :
        /\ pc[t] = "compact_loop"
        /\ Len(sstables) = 2
        /\ Len(merge.final_ops) = 1
        /\ Len(sstables[1].file) >= 2
        /\ Len(sstables[2].file) >= 1
        /\ sstables[1].file[1].key = sstables[2].file[1].key
        /\ sstables[1].file[1].value /= sstables[2].file[1].value
        /\ merge.final_ops[1] = SSTable_read_all(sstables[2])[1]


\* C30: compaction is invisible to readers: for every key k, get(k) right
\* after a successful compact_sstables gives the result get(k) gave right
\* before it (a get that panics gives no result to compare).
C30_CompactionInvisibleToGet ==
    \A t \in tasks :
        Compacted(t) =>
            \A k \in RunKeys \cup CompactKeys :
                LET before == Database_get(entry[t].memtable, entry[t].sstables, k)
                    after == Database_get(memtable, sstables, k)
                IN (before /= Panic /\ after /= Panic) => after = before


\* the flush of task t has written its snapshot of the MemTable and has not
\* yet truncated the WAL (lib.rs:86-108)
SnapshotTaken(t) ==
    pc[t] \in {"flush_lock_wal", "flush_clear_memtable", "flush_clear_wal"}

\* the keys of the records in the active WAL
WalKeys ==
    LET lines == Wal_get_line_iterator(wal) IN
    {Split(lines[i], TAB)[2] : i \in {j \in 1..Len(lines) : Len(Split(lines[j], TAB)) >= 2}}

\* the SSTable holds the record SSTable::write makes of the entry
Holds(sst, key, op) ==
    \E j \in 1..Len(sst.file) :
        /\ sst.file[j].key = key
        /\ sst.file[j].value = (IF op.tag = "Insert" THEN op.value ELSE TOMBSTONE)

\* C31: no write is lost by a concurrent flush: the SSTable a flush appends
\* holds every MemTable entry and the WAL holds records of those entries
\* only; from that snapshot until the flush has truncated the WAL nothing
\* but the flush's own clear changes the MemTable or the WAL, so the
\* entries cleared are the entries written and a mutation of another task
\* is applied either before the snapshot or after the flush.
C31_NoWriteLostByFlush ==
    [][\A t \in tasks :
          /\ (pc[t] = "flush_lock_memtable" /\ pc'[t] = "flush_lock_wal") =>
                 /\ \A k \in DOMAIN memtable.store :
                        Holds(sstables'[Len(sstables')], k, memtable.store[k])
                 /\ WalKeys \subseteq DOMAIN memtable.store
          /\ SnapshotTaken(t) =>
                 /\ memtable' /= memtable =>
                        /\ pc[t] = "flush_clear_memtable"
                        /\ pc'[t] = "flush_clear_wal"
                        /\ memtable' = MemTable_new
                 /\ wal' /= wal =>
                        /\ pc[t] = "flush_clear_wal"
                        /\ pc'[t] /= pc[t]
                        /\ wal' = Wal_clear(wal)
                        /\ memtable = MemTable_new]_vars

\* a flush has cleared a MemTable whose entry is in the SSTable it appended,
\* while a set of another task waits for the MemTable guard
C31_Witness ==
    \E t \in tasks, u \in tasks :
        /\ t /= u
        /\ pc[t] = "flush_clear_wal"
        /\ memtable = MemTable_new
        /\ Len(wal.file) > 0
        /\ Len(sstables) > 0
        /\ Len(sstables[Len(sstables)].file) > 0
        /\ pc[u] = "set_lock_memtable"


\* no operation is in progress: every task is between two calls
Quiescent == \A t \in tasks : pc[t] = "idle"

\* C32: unflushed data is recoverable from the active WAL: in every state in
\* which no operation is in progress, replaying the active WAL into an empty
\* MemTable succeeds, reproduces every Insert entry of the MemTable and
\* yields no key the MemTable lacks.
C32_ActiveWalRecoversMemtable ==
    Quiescent =>
        LET r == MemTable_replay_wal(MemTable_new, wal) IN
        /\ ~r.panic
        /\ \A k \in DOMAIN memtable.store :
               memtable.store[k].tag = "Insert" =>
                   /\ k \in DOMAIN r.mt.store
                   /\ r.mt.store[k] = memtable.store[k]
        /\ DOMAIN r.mt.store \subseteq DOMAIN memtable.store


\* C33: writing an operation to an SSTable and reading it back gives the
\* same operation: the SSTable a flush writes reads back, sequentially and
\* through find_key, as exactly the entries of the MemTable it was written
\* from, whatever the values are (the text TOMBSTONE included), so that an
\* Insert is never read back as a Delete.
C33_SSTableRoundTrip ==
    [][\A t \in tasks :
          (pc[t] = "flush_lock_memtable" /\ pc'[t] = "flush_lock_wal") =>
              LET new == sstables'[Len(sstables')] IN
              /\ SSTable_read_all(new) = MemTable_iter(memtable)
              /\ \A k \in DOMAIN memtable.store :
                     SSTable_find_key(new, k).found = Found(memtable.store[k])]_vars


\* C34: every SSTable in the engine's list holds at least one record and has
\* a non-empty sparse index, in every state reachable through the public
\* operations.
C34_NoEmptySSTable ==
    \A i \in DOMAIN sstables :
        /\ Len(sstables[i].file) > 0
        /\ DOMAIN sstables[i].index /= {}


\* the merge of task t has read every input to its end, its queue is empty
\* and every key of every input has been emitted
MergeComplete ==
    /\ merge.queue = {}
    /\ \A i \in DOMAIN sstables :
           merge.read_indexes[i] = OffsetOf(sstables[i].file, Len(sstables[i].file) + 1)
    /\ KeysOf(sstables) = {merge.final_ops[j][1] : j \in DOMAIN merge.final_ops}

\* C35: the compaction merge loop terminates for every list of input
\* SSTables; when it is left the candidate queue is empty and every record
\* of every input has been read and emitted or discarded as a duplicate of
\* an emitted key; the per-input counters of queued candidates never go
\* below zero.
C35_MergeTerminatesComplete ==
    /\ <>(pc[1] = "done")
    /\ [](\A i \in DOMAIN merge.ops_in_queue_per_sstable :
              merge.ops_in_queue_per_sstable[i] >= 0)
    /\ [][(pc[1] = "compact_loop" /\ pc'[1] = "done") => MergeComplete]_vars

\* a compaction of two runs sharing a key, longer than one read batch, has
\* returned
C35_Witness ==
    /\ pc[1] = "done"
    /\ Len(entry[1].sstables) = 2
    /\ Len(entry[1].sstables[1].file) = 3
    /\ Len(entry[1].sstables[2].file) >= 2
    /\ entry[1].sstables[1].file[2].key = entry[1].sstables[2].file[1].key

====
